---- MODULE Spec2Model ----
(***************************************************************************)
(* The snake game of src/main.rs as a state machine: the GameState         *)
(* (snake, food, gameover), the two event handlers that change it          *)
(* (key_down_event and EventHandler::update) and the pure helpers they     *)
(* call.  The random generator is modelled as a nondeterministic draw of   *)
(* a cell in range.                                                        *)
(***************************************************************************)
EXTENDS Integers, Sequences, FiniteSets, TLC

(* ------------------------------------------------------------------ *)
(* Bounds                                                              *)
(* ------------------------------------------------------------------ *)

\* GRID_SIZE.0 and GRID_SIZE.1 of the source are 40 and 30; the model runs
\* the same code on a smaller torus.
GridW == 4
GridH == 3
\* The largest number of ticks one call of EventHandler::update catches up.
MaxDue == 2
\* The largest number of Food outcomes of a run.
MaxFood == 1

GRID_SIZE == <<GridW, GridH>>

None == "None"

(* ------------------------------------------------------------------ *)
(* GridPosition                                                        *)
(* ------------------------------------------------------------------ *)

GridPositionNew(x, y) == [x |-> x, y |-> y]

\* i16::rem_euclid with a positive modulus.
rem_euclid(a, n) == a % n

\* Every value rng.rand_range(0..max_x), rng.rand_range(0..max_y) can give.
random(max_x, max_y) ==
    {GridPositionNew(x, y) : x \in 0..(max_x - 1), y \in 0..(max_y - 1)}

Direction == {"Up", "Down", "Left", "Right"}

\* The remainder of Rust's % operator, which keeps the sign of a.
rem_trunc(a, n) == IF a < 0 THEN 0 - ((0 - a) % n) ELSE a % n

\* new_from_move with % in place of rem_euclid.
new_from_move_rem(pos, dir) ==
    CASE dir = "Up"    -> GridPositionNew(pos.x, rem_trunc(pos.y - 1, GRID_SIZE[2]))
      [] dir = "Down"  -> GridPositionNew(pos.x, rem_trunc(pos.y + 1, GRID_SIZE[2]))
      [] dir = "Left"  -> GridPositionNew(rem_trunc(pos.x - 1, GRID_SIZE[1]), pos.y)
      [] dir = "Right" -> GridPositionNew(rem_trunc(pos.x + 1, GRID_SIZE[1]), pos.y)

\* new_from_move with Up wrapped by the width, GRID_SIZE.0, in place of the height.
new_from_move_up_by_width(pos, dir) ==
    CASE dir = "Up"    -> GridPositionNew(pos.x, rem_euclid(pos.y - 1, GRID_SIZE[1]))
      [] dir = "Down"  -> GridPositionNew(pos.x, rem_euclid(pos.y + 1, GRID_SIZE[2]))
      [] dir = "Left"  -> GridPositionNew(rem_euclid(pos.x - 1, GRID_SIZE[1]), pos.y)
      [] dir = "Right" -> GridPositionNew(rem_euclid(pos.x + 1, GRID_SIZE[1]), pos.y)

new_from_move(pos, dir) ==
    CASE dir = "Up"    -> GridPositionNew(pos.x, rem_euclid(pos.y - 1, GRID_SIZE[2]))
      [] dir = "Down"  -> GridPositionNew(pos.x, rem_euclid(pos.y + 1, GRID_SIZE[2]))
      [] dir = "Left"  -> GridPositionNew(rem_euclid(pos.x - 1, GRID_SIZE[1]), pos.y)
      [] dir = "Right" -> GridPositionNew(rem_euclid(pos.x + 1, GRID_SIZE[1]), pos.y)

(* ------------------------------------------------------------------ *)
(* Direction                                                           *)
(* ------------------------------------------------------------------ *)

\* inverse with Left mapped to itself.
inverse_left_slip(d) ==
    CASE d = "Up"    -> "Down"
      [] d = "Down"  -> "Up"
      [] d = "Left"  -> "Left"
      [] d = "Right" -> "Left"

inverse(d) ==
    CASE d = "Up"    -> "Down"
      [] d = "Down"  -> "Up"
      [] d = "Left"  -> "Right"
      [] d = "Right" -> "Left"

\* from_keycode with the catch-all arm mapped to a direction.
from_keycode_catch_all_up(key) ==
    CASE key = "KeyUp"    -> "Up"
      [] key = "KeyDown"  -> "Down"
      [] key = "KeyLeft"  -> "Left"
      [] key = "KeyRight" -> "Right"
      [] OTHER            -> "Up"

\* The key codes the model delivers: the four arrows and one other key.
KeyCode == {"KeyUp", "KeyDown", "KeyLeft", "KeyRight", "KeySpace"}

from_keycode(key) ==
    CASE key = "KeyUp"    -> "Up"
      [] key = "KeyDown"  -> "Down"
      [] key = "KeyLeft"  -> "Left"
      [] key = "KeyRight" -> "Right"
      [] OTHER            -> None

\* Option::and_then on input.keycode.
and_then_from_keycode(keycode) ==
    IF keycode = None THEN None ELSE from_keycode(keycode)

(* ------------------------------------------------------------------ *)
(* Segment, Snake                                                      *)
(* ------------------------------------------------------------------ *)

SegmentNew(pos) == [pos |-> pos]

SnakeNew(pos) ==
    [head            |-> SegmentNew(pos),
     dir             |-> "Right",
     last_update_dir |-> "Right",
     body            |-> <<SegmentNew(GridPositionNew(pos.x - 1, pos.y))>>,
     ate             |-> None,
     next_dir        |-> None]

eats(self, food) == self.head.pos = food.pos

\* eats_self without the last segment, the cell the tail is about to leave.
eats_self_but_tail(self) ==
    \E i \in 1..(Len(self.body) - 1) : self.head.pos = self.body[i].pos

eats_self(self) == \E i \in 1..Len(self.body) : self.head.pos = self.body[i].pos

\* The promotion that leaves the promoted direction in next_dir.
update_promote_keeps_buffer(self) ==
    IF self.last_update_dir = self.dir /\ self.next_dir # None
    THEN [self EXCEPT !.dir = self.next_dir]
    ELSE self

\* The promotion without the test last_update_dir == dir.
update_promote_always(self) ==
    IF self.next_dir # None
    THEN [self EXCEPT !.dir = self.next_dir, !.next_dir = None]
    ELSE self

\* Snake::update, lines 205-209: the buffered direction is promoted.
update_promote(self) ==
    IF self.last_update_dir = self.dir /\ self.next_dir # None
    THEN [self EXCEPT !.dir = self.next_dir, !.next_dir = None]
    ELSE self

\* The move with the old head pushed to the back of the body.
update_move_push_back(self) ==
    LET new_head_pos == new_from_move(self.head.pos, self.dir)
        new_head     == SegmentNew(new_head_pos)
    IN  [self EXCEPT !.body = self.body \o <<self.head>>, !.head = new_head]

\* Snake::update, lines 211-217: the head moves, the old head joins the body.
update_move(self) ==
    LET new_head_pos == new_from_move(self.head.pos, self.dir)
        new_head     == SegmentNew(new_head_pos)
    IN  [self EXCEPT !.body = <<self.head>> \o self.body, !.head = new_head]

\* The outcome with eats tested before eats_self.
update_ate_food_first(self, food) ==
    [self EXCEPT !.ate = IF eats(self, food) THEN "Food"
                         ELSE IF eats_self(self) THEN "Itself"
                         ELSE None]

\* Snake::update, lines 219-225: what the head ran into.
update_ate(self, food) ==
    [self EXCEPT !.ate = IF eats_self(self) THEN "Itself"
                         ELSE IF eats(self, food) THEN "Food"
                         ELSE None]

\* pop_back unless the outcome is Food; pop_back on every tick.
update_pop_unless_food(self) ==
    IF self.ate # "Food"
    THEN [self EXCEPT !.body = SubSeq(self.body, 1, Len(self.body) - 1)]
    ELSE self

update_pop_always(self) ==
    [self EXCEPT !.body = SubSeq(self.body, 1, Len(self.body) - 1)]

\* Snake::update, lines 227-229: VecDeque::pop_back unless something was eaten.
update_pop(self) ==
    IF self.ate = None
    THEN [self EXCEPT !.body = SubSeq(self.body, 1, Len(self.body) - 1)]
    ELSE self

SnakeUpdate(self, food) ==
    LET s1 == update_promote(self)
        s2 == update_move(s1)
        s3 == update_ate(s2, food)
        s4 == update_pop(s3)
    IN  [s4 EXCEPT !.last_update_dir = s4.dir]

(* ------------------------------------------------------------------ *)
(* Food, GameState                                                     *)
(* ------------------------------------------------------------------ *)

FoodNew(pos) == [pos |-> pos]

\* Every GameState GameState::new can build (one per first draw of the food).
GameStateNew ==
    LET snake_pos == GridPositionNew(GRID_SIZE[1] \div 4, GRID_SIZE[2] \div 2)
    IN  {[snake    |-> SnakeNew(snake_pos),
          food     |-> FoodNew(food_pos),
          gameover |-> FALSE] : food_pos \in random(GRID_SIZE[1], GRID_SIZE[2])}

\* The loop body with the arms of the match on ate swapped.
update_step_arms_swapped(gs) ==
    IF ~gs.gameover
    THEN LET snake == SnakeUpdate(gs.snake, gs.food)
             g1    == [gs EXCEPT !.snake = snake]
         IN  IF snake.ate = "Itself"
             THEN {[g1 EXCEPT !.food.pos = new_food_pos] :
                      new_food_pos \in random(GRID_SIZE[1], GRID_SIZE[2])}
             ELSE IF snake.ate = "Food"
             THEN {[g1 EXCEPT !.gameover = TRUE]}
             ELSE {g1}
    ELSE {gs}

\* The loop body with the new food drawn among the cells the snake is not on.
update_step_food_off_snake(gs) ==
    IF ~gs.gameover
    THEN LET snake == SnakeUpdate(gs.snake, gs.food)
             g1    == [gs EXCEPT !.snake = snake]
         IN  IF snake.ate = "Food"
             THEN {[g1 EXCEPT !.food.pos = new_food_pos] :
                      new_food_pos \in
                          {pos \in random(GRID_SIZE[1], GRID_SIZE[2]) :
                              /\ pos # snake.head.pos
                              /\ \A i \in 1..Len(snake.body) : pos # snake.body[i].pos}}
             ELSE IF snake.ate = "Itself"
             THEN {[g1 EXCEPT !.gameover = TRUE]}
             ELSE {g1}
    ELSE {gs}

\* The loop body without the test of gameover.
update_step_ignoring_gameover(gs) ==
    LET snake == SnakeUpdate(gs.snake, gs.food)
        g1    == [gs EXCEPT !.snake = snake]
    IN  IF snake.ate = "Food"
        THEN {[g1 EXCEPT !.food.pos = new_food_pos] :
                 new_food_pos \in random(GRID_SIZE[1], GRID_SIZE[2])}
        ELSE IF snake.ate = "Itself"
        THEN {[g1 EXCEPT !.gameover = TRUE]}
        ELSE {g1}

\* One pass of the while loop of EventHandler::update: the set of GameStates
\* it can leave, one per draw of the random generator.
update_step(gs) ==
    IF ~gs.gameover
    THEN LET snake == SnakeUpdate(gs.snake, gs.food)
             g1    == [gs EXCEPT !.snake = snake]
         IN  IF snake.ate = "Food"
             THEN {[g1 EXCEPT !.food.pos = new_food_pos] :
                      new_food_pos \in random(GRID_SIZE[1], GRID_SIZE[2])}
             ELSE IF snake.ate = "Itself"
             THEN {[g1 EXCEPT !.gameover = TRUE]}
             ELSE {g1}
    ELSE {gs}

\* key_down_event that buffers a direction only into an empty next_dir.
key_down_event_keeps_first(gs, keycode) ==
    LET dir == and_then_from_keycode(keycode)
    IN  IF dir # None
        THEN IF gs.snake.dir # gs.snake.last_update_dir /\ inverse(dir) # gs.snake.dir
             THEN IF gs.snake.next_dir = None
                  THEN [gs EXCEPT !.snake.next_dir = dir]
                  ELSE gs
             ELSE IF inverse(dir) # gs.snake.last_update_dir
             THEN [gs EXCEPT !.snake.dir = dir]
             ELSE gs
        ELSE gs

\* key_down_event without the test against the inverse of last_update_dir.
key_down_event_no_reverse_guard(gs, keycode) ==
    LET dir == and_then_from_keycode(keycode)
    IN  IF dir # None
        THEN IF gs.snake.dir # gs.snake.last_update_dir /\ inverse(dir) # gs.snake.dir
             THEN [gs EXCEPT !.snake.next_dir = dir]
             ELSE [gs EXCEPT !.snake.dir = dir]
        ELSE gs

\* GameState::key_down_event.
key_down_event(gs, keycode) ==
    LET dir == and_then_from_keycode(keycode)
    IN  IF dir # None
        THEN IF gs.snake.dir # gs.snake.last_update_dir /\ inverse(dir) # gs.snake.dir
             THEN [gs EXCEPT !.snake.next_dir = dir]
             ELSE IF inverse(dir) # gs.snake.last_update_dir
             THEN [gs EXCEPT !.snake.dir = dir]
             ELSE gs
        ELSE gs

\* EventHandler::update with `due` ticks to catch up: every run of the while
\* loop, as the sequence of GameStates before the first pass and after each.
RECURSIVE EventHandlerUpdate(_, _)
EventHandlerUpdate(gs, due) ==
    IF due = 0
    THEN {<<gs>>}
    ELSE {<<gs>> \o rest :
             rest \in UNION {EventHandlerUpdate(g1, due - 1) : g1 \in update_step(gs)}}

(* ------------------------------------------------------------------ *)
(* State                                                               *)
(* ------------------------------------------------------------------ *)

VARIABLES
    snake,      \* GameState.snake
    food,       \* GameState.food
    gameover,   \* GameState.gameover
    op,         \* history: the handler that ran last, its key, gameover at its entry
                \* (key presses are recorded only with the input history)
    foods,      \* history: the number of ticks so far whose outcome was Food
    selfs,      \* history: the number of ticks so far whose outcome was Itself
    burst,      \* history: key presses since the last tick; 3 once a window held more than two
    ticked,     \* history: a tick has run
    reversed,   \* history: the last tick moved the head opposite to the tick before it
    scen,       \* history: progress of a double key press (a then b) and the two ticks after it
    probe       \* the position and direction new_from_move is tried on

vars == <<snake, food, gameover, op, foods, selfs, burst, ticked, reversed, scen, probe>>

GS == [snake |-> snake, food |-> food, gameover |-> gameover]
HS == [foods |-> foods, selfs |-> selfs, burst |-> burst, ticked |-> ticked,
       reversed |-> reversed, scen |-> scen]

Idle == [phase |-> 0, a |-> None, b |-> None]
NoProbe == [stage |-> 0, p |-> None, d |-> None, q |-> None]

(* ------------------------------------------------------------------ *)
(* History                                                             *)
(* ------------------------------------------------------------------ *)

\* The direction that takes the head of g to the head of g2.
MovedDir(g, g2) ==
    CHOOSE d \in Direction : new_from_move(g.snake.head.pos, d) = g2.snake.head.pos

ScenTick(sc) ==
    IF sc.phase \in {2, 3} THEN [sc EXCEPT !.phase = sc.phase + 1] ELSE Idle

\* A press of direction a from a state with dir = last_update_dir = d and
\* next_dir empty, a neither d nor its inverse, starts the scenario; a second
\* press b, not the inverse of a, continues it; any other press ends it.
ScenKey(sc, g, dir) ==
    IF /\ dir # None
       /\ g.snake.dir = g.snake.last_update_dir
       /\ g.snake.next_dir = None
       /\ dir # g.snake.dir
       /\ dir # inverse(g.snake.dir)
    THEN [phase |-> 1, a |-> dir, b |-> None]
    ELSE IF sc.phase = 1 /\ dir # None /\ dir # inverse(sc.a)
    THEN [phase |-> 2, a |-> sc.a, b |-> dir]
    ELSE Idle

\* The history after a tick that took g to g2.  The input history (burst,
\* ticked, reversed, scen) is kept only when watch is set.
TickHist(hs, g, g2, watch) ==
    LET counted == [hs EXCEPT
                      !.foods = @ + (IF g2.snake.ate = "Food" THEN 1 ELSE 0),
                      !.selfs = @ + (IF g2.snake.ate = "Itself" THEN 1 ELSE 0)]
    IN  IF watch
        THEN [counted EXCEPT
                !.burst    = IF @ > 2 THEN @ ELSE 0,
                !.ticked   = TRUE,
                !.reversed = hs.ticked /\ MovedDir(g, g2) = inverse(g.snake.last_update_dir),
                !.scen     = ScenTick(@)]
        ELSE counted

\* The history after a run of the while loop; a pass entered with gameover set
\* is no tick.
RECURSIVE Observe(_, _, _)
Observe(hs, run, watch) ==
    IF Len(run) < 2
    THEN hs
    ELSE Observe(IF run[1].gameover THEN hs ELSE TickHist(hs, run[1], run[2], watch),
                 Tail(run), watch)

(* ------------------------------------------------------------------ *)
(* Specifications                                                      *)
(* ------------------------------------------------------------------ *)

InitGame ==
    /\ \E gs \in GameStateNew :
          /\ snake = gs.snake
          /\ food = gs.food
          /\ gameover = gs.gameover
    /\ op = [name |-> "new", key |-> None, frozen |-> FALSE]
    /\ foods = 0
    /\ selfs = 0
    /\ burst = 0
    /\ ticked = FALSE
    /\ reversed = FALSE
    /\ scen = Idle

Init == InitGame /\ probe = NoProbe

\* The framework delivers a key press.
KeyDown(watch) ==
    \E keycode \in KeyCode \cup {None} :
        LET gs == key_down_event(GS, keycode)
        IN  /\ snake' = gs.snake
            /\ food' = gs.food
            /\ gameover' = gs.gameover
            /\ op' = IF watch
                     THEN [name |-> "key", key |-> keycode, frozen |-> gameover]
                     ELSE op
            /\ burst' = IF watch /\ burst <= 2 THEN burst + 1 ELSE burst
            /\ scen' = IF watch
                       THEN ScenKey(scen, GS, and_then_from_keycode(keycode))
                       ELSE scen
            /\ UNCHANGED <<foods, selfs, ticked, reversed, probe>>

\* The framework calls update with 0..MaxDue ticks due; the run goes on while
\* no more than maxfood ticks had outcome Food.
Update(watch, maxfood) ==
    \E due \in 0..MaxDue :
        \E run \in EventHandlerUpdate(GS, due) :
            LET gs == run[Len(run)]
                hs == Observe(HS, run, watch)
            IN  /\ hs.foods <= maxfood
                /\ snake' = gs.snake
                /\ food' = gs.food
                /\ gameover' = gs.gameover
                /\ op' = [name |-> "update", key |-> None, frozen |-> gameover]
                /\ foods' = hs.foods
                /\ selfs' = hs.selfs
                /\ burst' = hs.burst
                /\ ticked' = hs.ticked
                /\ reversed' = hs.reversed
                /\ scen' = hs.scen
                /\ UNCHANGED probe

\* The game.
Next == KeyDown(FALSE) \/ Update(FALSE, MaxFood)

Spec == Init /\ [][Next]_vars

\* The game up to its first Food outcome, with the history of the key presses
\* kept.  key_down_event and the promotion in Snake::update read dir,
\* last_update_dir and next_dir only, never the food or the body.
NextInput == KeyDown(TRUE) \/ Update(TRUE, 0)

SpecInput == Init /\ [][NextInput]_vars

\* new_from_move and inverse on every cell of the grid and every direction.
InitMove ==
    /\ InitGame
    /\ \E p \in random(GRID_SIZE[1], GRID_SIZE[2]) : \E d \in Direction :
          probe = [stage |-> 1, p |-> p, d |-> d, q |-> p]

MoveOut ==
    /\ probe.stage = 1
    /\ probe' = [probe EXCEPT !.stage = 2, !.q = new_from_move(probe.p, probe.d)]
    /\ UNCHANGED <<snake, food, gameover, op, foods, selfs, burst, ticked, reversed, scen>>

MoveBack ==
    /\ probe.stage = 2
    /\ probe' = [probe EXCEPT !.stage = 3, !.q = new_from_move(probe.q, inverse(probe.d))]
    /\ UNCHANGED <<snake, food, gameover, op, foods, selfs, burst, ticked, reversed, scen>>

NextMove == MoveOut \/ MoveBack

SpecMove == InitMove /\ [][NextMove]_vars

(* ------------------------------------------------------------------ *)
(* Claims                                                              *)
(* ------------------------------------------------------------------ *)

\* C1: in every run in which no window between two ticks held more than two
\* key presses, no tick moves the head in the direction that is the inverse of
\* the direction of the tick before it.
C1_NoReversal == burst <= 2 => ~reversed

\* The direction of the key press the last handler call delivered, if any.
PressedDir == IF op.name = "key" THEN and_then_from_keycode(op.key) ELSE None

\* C2 as claimed: with last_update_dir = Right, whatever dir and next_dir
\* hold, a key press of Left changes neither dir nor next_dir.
C2_LeftAlwaysDiscarded ==
    [][(op'.name = "key" /\ op'.key = "KeyLeft" /\ snake.last_update_dir = "Right")
          => (snake'.dir = snake.dir /\ snake'.next_dir = snake.next_dir)]_vars

\* C2 as amended: with last_update_dir = Right and no change pending (dir =
\* Right), whatever next_dir holds, a key press of Left changes neither dir
\* nor next_dir.
C2_LeftDiscardedUnlessPending ==
    [][(/\ op'.name = "key"
        /\ op'.key = "KeyLeft"
        /\ snake.last_update_dir = "Right"
        /\ snake.dir = "Right")
          => (snake'.dir = snake.dir /\ snake'.next_dir = snake.next_dir)]_vars

\* A press of Left has just been handled with dir = last_update_dir = Right
\* and a direction buffered in next_dir (a press of Left never sets dir to
\* Right, so dir was Right before it too).
C2_Witness ==
    /\ op.name = "key"
    /\ op.key = "KeyLeft"
    /\ snake.last_update_dir = "Right"
    /\ snake.dir = "Right"
    /\ snake.next_dir # None

C10_BufferedDoubleInput ==
    /\ scen.phase = 1 =>
          /\ snake.dir = scen.a
          /\ snake.next_dir = None
    /\ scen.phase = 2 =>
          /\ snake.dir = scen.a
          /\ snake.next_dir = scen.b
    /\ scen.phase = 3 =>
          /\ snake.head.pos = new_from_move(snake.body[1].pos, scen.a)
          /\ snake.last_update_dir = scen.a
          /\ snake.dir = scen.a
          /\ snake.next_dir = scen.b
    /\ scen.phase = 4 =>
          /\ snake.head.pos = new_from_move(snake.body[1].pos, scen.b)
          /\ snake.last_update_dir = scen.b
          /\ snake.next_dir = None

\* Both presses and both ticks have happened, with b a turn away from a.
C10_Witness ==
    /\ scen.phase = 4
    /\ scen.b # scen.a
    /\ ~gameover

HeadOnBody(sn) == \E i \in 1..Len(sn.body) : sn.body[i].pos = sn.head.pos

\* C4: a tick whose new head position is that of a body segment and also that
\* of the food has outcome Itself, sets gameover and leaves the food where it
\* was.
C4_SelfCollisionPrecedence ==
    ~gameover =>
        \A gs \in update_step(GS) :
            (gs.snake.head.pos = food.pos /\ HeadOnBody(gs.snake))
                => /\ gs.snake.ate = "Itself"
                   /\ gs.gameover
                   /\ gs.food = food

\* The update call that ended the game moved the head onto a body segment
\* that lay on the food.
C4_Witness ==
    /\ op.name = "update"
    /\ ~op.frozen
    /\ gameover
    /\ snake.head.pos = food.pos
    /\ HeadOnBody(snake)
    /\ snake.ate = "Itself"

\* C5: once gameover is true it stays true, and every later call of update,
\* whatever the number of ticks due, leaves the snake and the food unchanged.
C5_GameOverTerminal ==
    [][gameover =>
          /\ gameover'
          /\ Update(FALSE, MaxFood) => (snake' = snake /\ food' = food)]_vars

\* update has been called, with ticks due or not, after the game was over.
C5_Witness ==
    /\ op.name = "update"
    /\ op.frozen
    /\ gameover

\* C6: after any ticks and key presses of which K ticks had outcome Food and
\* none had outcome Itself, the body holds 1 + K segments.
C6_Growth == selfs = 0 => Len(snake.body) = 1 + foods

\* The snake has eaten and moved on without running into itself.
C6_Witness ==
    /\ selfs = 0
    /\ foods >= 1
    /\ snake.ate = None

\* C7 as claimed: in every reachable state, the frozen state after game over
\* included, the body holds 1 + (ticks with outcome Food) segments.
C7_LengthAlways == Len(snake.body) = 1 + foods

\* C7 as amended: the body holds 1 + (ticks with outcome Food) segments while
\* the game runs, and one more in the frozen state after game over.
C7_LengthUntilGameOver ==
    Len(snake.body) = 1 + foods + (IF gameover THEN 1 ELSE 0)

\* The frozen state of a snake that had eaten.
C7_Witness ==
    /\ gameover
    /\ foods >= 1
    /\ Len(snake.body) = 2 + foods

InRange(pos) ==
    /\ pos.x \in 0..(GRID_SIZE[1] - 1)
    /\ pos.y \in 0..(GRID_SIZE[2] - 1)

\* C8: the head, every body segment and the food are always inside the grid.
C8_InBounds ==
    /\ InRange(snake.head.pos)
    /\ \A i \in 1..Len(snake.body) : InRange(snake.body[i].pos)
    /\ InRange(food.pos)

\* The head has left the grid's first column to the left and come back in at
\* its last, with the food drawn a second time.
C8_Witness ==
    /\ snake.head.pos.x = GRID_SIZE[1] - 1
    /\ snake.body[1].pos.x = 0
    /\ snake.last_update_dir = "Left"
    /\ foods >= 1

\* C9: moving one cell in direction d and then one cell in its inverse leads
\* back to the same cell, for every cell and direction; inverse is an
\* involution without a fixed point.
C9_RoundTrip ==
    /\ probe.stage = 3 => probe.q = probe.p
    /\ probe.stage >= 1 =>
          /\ inverse(inverse(probe.d)) = probe.d
          /\ inverse(probe.d) # probe.d

\* The round trip from the corner cell (0, 0) upwards across the edge.
C9_Witness ==
    /\ probe.stage = 3
    /\ probe.p = GridPositionNew(0, 0)
    /\ probe.d = "Up"

\* s without its last element.
Front(s) == SubSeq(s, 1, Len(s) - 1)

\* C11: a tick moves the head one cell, with wraparound, in the direction it
\* applies, and makes the body the old head followed by the old body in its
\* order, without its last segment if and only if the outcome is none; on
\* Food and on Itself the body grows by one.
C11_TickEffect ==
    ~gameover =>
        \A gs \in update_step(GS) :
            /\ gs.snake.head.pos = new_from_move(snake.head.pos, gs.snake.last_update_dir)
            /\ gs.snake.ate = None
                  => gs.snake.body = <<snake.head>> \o Front(snake.body)
            /\ gs.snake.ate # None
                  => /\ gs.snake.body = <<snake.head>> \o snake.body
                     /\ Len(gs.snake.body) = Len(snake.body) + 1

\* A tick with outcome Food has just grown a body of more than one segment:
\* the old head is in front, the old segments behind it.
C11_Witness ==
    /\ op.name = "update"
    /\ snake.ate = "Food"
    /\ Len(snake.body) >= 2
    /\ snake.head.pos = new_from_move(snake.body[1].pos, snake.last_update_dir)

\* C12: a tick whose new head position is that of the last body segment, the
\* cell this tick would vacate, has outcome Itself and ends the game.
C12_TailCollision ==
    ~gameover =>
        \A gs \in update_step(GS) :
            gs.snake.head.pos = snake.body[Len(snake.body)].pos
                => (gs.snake.ate = "Itself" /\ gs.gameover)

\* The game has ended with the head on the last segment of a body that the
\* head did not turn back into.
C12_Witness ==
    /\ gameover
    /\ snake.ate = "Itself"
    /\ Len(snake.body) >= 3
    /\ snake.head.pos = snake.body[Len(snake.body)].pos
    /\ snake.head.pos # snake.body[2].pos

\* C13: a press of a recognised direction k sets next_dir = k, whatever was
\* buffered, and leaves dir alone if a change is pending (dir differs from
\* last_update_dir) and k is not the inverse of dir; otherwise it sets dir = k
\* and leaves next_dir alone if k is not the inverse of last_update_dir; a key
\* press changes the state in no other way.
C13_InputPolicy ==
    [][op'.name = "key" =>
          /\ food' = food
          /\ gameover' = gameover
          /\ snake' =
                IF PressedDir' = None
                THEN snake
                ELSE IF /\ snake.dir # snake.last_update_dir
                        /\ PressedDir' # inverse(snake.dir)
                THEN [snake EXCEPT !.next_dir = PressedDir']
                ELSE IF PressedDir' # inverse(snake.last_update_dir)
                THEN [snake EXCEPT !.dir = PressedDir']
                ELSE snake]_vars

\* Three presses in one window: the last has just been buffered over a change
\* that is pending.
C13_Witness ==
    /\ op.name = "key"
    /\ burst = 3
    /\ snake.dir # snake.last_update_dir
    /\ snake.next_dir = PressedDir
    /\ snake.next_dir # snake.dir

\* C14: a tick replaces dir by next_dir and clears next_dir if and only if, at
\* its start, last_update_dir = dir and next_dir is present; otherwise it
\* leaves dir and next_dir as they are; either way it moves the head by dir
\* and ends with last_update_dir = dir, and a promoted direction is no longer
\* buffered, so it is applied once.
C14_Promotion ==
    ~gameover =>
        \A gs \in update_step(GS) :
            /\ IF snake.last_update_dir = snake.dir /\ snake.next_dir # None
               THEN gs.snake.dir = snake.next_dir /\ gs.snake.next_dir = None
               ELSE gs.snake.dir = snake.dir /\ gs.snake.next_dir = snake.next_dir
            /\ gs.snake.last_update_dir = gs.snake.dir
            /\ gs.snake.head.pos = new_from_move(snake.head.pos, gs.snake.dir)

\* The second tick after a double key press has just promoted the buffered
\* direction.
C14_Witness ==
    /\ op.name = "update"
    /\ scen.phase = 4
    /\ snake.dir = scen.b
    /\ snake.dir # scen.a
    /\ snake.next_dir = None

\* C15 as claimed: once gameover is true, no later key press and no later
\* tick changes any snake field or the food position.
C15_FrozenAfterGameOver ==
    [][gameover => (snake' = snake /\ food' = food)]_vars

\* C15 as amended: once gameover is true, no later tick changes any snake
\* field or the food position, and no later key press changes head, body,
\* last_update_dir, ate or the food position; a key press can still change
\* dir and next_dir.
C15_FrozenButDirSlots ==
    [][gameover =>
          /\ snake'.head = snake.head
          /\ snake'.body = snake.body
          /\ snake'.last_update_dir = snake.last_update_dir
          /\ snake'.ate = snake.ate
          /\ food' = food
          /\ Update(FALSE, MaxFood) => snake' = snake]_vars

\* A key press has been handled after game over: the tick that ended the game
\* left dir = last_update_dir, no tick has run since, and dir differs from
\* last_update_dir now, with update called once more after the press.
C15_Witness ==
    /\ gameover
    /\ op.name = "update"
    /\ op.frozen
    /\ snake.dir # snake.last_update_dir
    /\ snake.next_dir # None

ArrowKeys == {"KeyUp", "KeyDown", "KeyLeft", "KeyRight"}

\* C17: a press of a key that is none of the four arrows, or a key event
\* without a key code, leaves the whole game state unchanged, and no key press
\* changes head, body, ate, last_update_dir, food or gameover.
C17_KeysHarmless ==
    [][op'.name = "key" =>
          /\ snake'.head = snake.head
          /\ snake'.body = snake.body
          /\ snake'.ate = snake.ate
          /\ snake'.last_update_dir = snake.last_update_dir
          /\ food' = food
          /\ gameover' = gameover
          /\ op'.key \notin ArrowKeys
                => (snake' = snake /\ food' = food /\ gameover' = gameover)]_vars

\* A key that is no arrow has just been pressed in a running game with a
\* change pending and a direction buffered.
C17_Witness ==
    /\ op.name = "key"
    /\ op.key = "KeySpace"
    /\ ticked
    /\ ~gameover
    /\ snake.dir # snake.last_update_dir
    /\ snake.next_dir # None

\* C16: a simulation step that leaves the food on another cell has outcome
\* Food, so steps with outcome none or Itself leave the food where it is;
\* and a key press or a call of update in which no step had outcome Food
\* leaves the food where it is.
C16_FoodMovesOnlyWhenEaten ==
    /\ [](\A gs \in update_step(GS) : gs.food # food => gs.snake.ate = "Food")
    /\ [][food' # food => foods' > foods]_vars

\* A tick has just eaten the food, and the food is now elsewhere.
C16_Witness ==
    /\ op.name = "update"
    /\ snake.ate = "Food"
    /\ foods >= 1
    /\ food.pos # snake.head.pos

\* The cells the snake lies on.
SnakeCells(sn) == {sn.head.pos} \cup {sn.body[i].pos : i \in 1..Len(sn.body)}

\* C18: a tick with outcome Food can leave the food on any cell of the grid,
\* the cells under the snake's head and body included, with the game still
\* running.
C18_RespawnAnywhere ==
    ~gameover =>
        \A gs \in update_step(GS) :
            gs.snake.ate = "Food" =>
                \A x \in 0..(GRID_SIZE[1] - 1) : \A y \in 0..(GRID_SIZE[2] - 1) :
                    \E g2 \in update_step(GS) :
                        /\ g2.snake = gs.snake
                        /\ ~g2.gameover
                        /\ g2.food.pos = GridPositionNew(x, y)

\* The food has just been drawn again, the game goes on, and the food lies
\* under a body segment.
C18_Witness ==
    /\ ~gameover
    /\ op.name = "update"
    /\ snake.ate = "Food"
    /\ \E i \in 1..Len(snake.body) : snake.body[i].pos = food.pos

\* C19: gameover is true exactly when the recorded outcome is Itself; an
\* outcome of Food never sets gameover.
C19_GameOverIffItself == gameover <=> snake.ate = "Itself"

\* A tick has just ended the game.
C19_Witness ==
    /\ op.name = "update"
    /\ ~op.frozen
    /\ gameover
    /\ snake.ate = "Itself"
    /\ selfs = 1

\* C20: while the game runs the head is on no body segment, the body
\* segments are on pairwise different cells and the body is not empty.
C20_NoOverlap ==
    ~gameover =>
        /\ Len(snake.body) >= 1
        /\ ~HeadOnBody(snake)
        /\ \A i, j \in 1..Len(snake.body) :
              i # j => snake.body[i].pos # snake.body[j].pos
        /\ Cardinality(SnakeCells(snake)) = Len(snake.body) + 1

\* A running snake of three cells whose head has just left the cell next to
\* its tail's.
C20_Witness ==
    /\ ~gameover
    /\ op.name = "update"
    /\ Len(snake.body) = 2
    /\ snake.ate = None
    /\ foods >= 1

====
